---- MODULE Spec2Model ----
(***************************************************************************)
(* Model of gui/mainwindow.py: the batch engine of the audio slicer.       *)
(*                                                                         *)
(* MainWindow owns the counters workCount / workFinished, the flag         *)
(* processing, the list model (one row per input file, each row carrying a *)
(* WorkStatus) and a QThreadPool.  _q_start creates one Worker per row and *)
(* hands it to the pool; Worker.run executes on a pool thread and reports  *)
(* through the signals startRunning and finishedWithArgs.  The signal      *)
(* objects and the MainWindow live in the GUI thread, so every emission    *)
(* from a pool thread is a queued connection: it is posted to the GUI      *)
(* thread's event queue (FIFO) and the slot runs there, one at a time.     *)
(***************************************************************************)
EXTENDS Naturals, Integers, Sequences, FiniteSets

\* Largest number of rows the list model holds in the explored behaviours.
MaxItems == 2

\* Largest number of chunks Slicer.slice returns in the explored behaviours.
MaxChunks == 2

\* QThread.idealThreadCount(): the host-reported value, at least 1.
IdealThreadCount == 2

\* Texts the user can leave in lineEditThreads (validator \d+; the empty text
\* is an acceptable intermediate input).  A text is a sequence of digits.
ThreadTexts == { <<>>, <<0>>, <<1>>, <<2>>, <<0, 2>>, <<1, 0>> }

VARIABLES
    model,            \* the QStandardItemModel: a sequence of rows [status]
    workCount,        \* self.workCount
    workFinished,     \* self.workFinished
    processing,       \* self.processing
    lineEditThreads,  \* text of ui.lineEditThreads
    threadpool,       \* self.threadpool: [maxThreadCount, queue, active]
    workers,          \* the Worker objects of the current batch, by jobid
    events,           \* queued signal emissions awaiting the GUI thread
    completions,      \* times the completion branch ran since the last start
    threadsRead,      \* the text of lineEditThreads the last start parsed
    paths,            \* the full path each row keeps at UserRole + 1
    lineEditOutputDir,\* text of ui.lineEditOutputDir
    filesWritten      \* per jobid, the paths given to soundfile.write

\* The variables of the file naming; the scheduling steps leave them alone.
pathVars == << paths, lineEditOutputDir, filesWritten >>

vars == << model, workCount, workFinished, processing, lineEditThreads,
           threadpool, workers, events, completions, threadsRead, pathVars >>

\* class WorkStatus
WorkStatus == { "NEW", "PENDING", "PROCESSING", "FINISHED", "ERROR" }

\* jobids of the Workers created by the last _q_start
Jobs == DOMAIN workers

\* model.rowCount()
rowCount == Len(model)

\* model.item(jobid).data(UserRole + 2); rows are numbered from 0
StatusOf(jobid) == model[jobid + 1].status

\* ------------------------------------------------------------------------
\* Conversions between the text of a line edit and an integer.

RECURSIVE IntOf(_)
\* int(text) for a non-empty digit sequence
IntOf(text) ==
    IF Len(text) = 0 THEN 0
    ELSE 10 * IntOf(SubSeq(text, 1, Len(text) - 1)) + text[Len(text)]

RECURSIVE StrOf(_)
\* str(n) for n >= 0
StrOf(n) ==
    IF n < 10 THEN << n >> ELSE Append(StrOf(n \div 10), n % 10)

\* Variant of ThreadsValueError: the range test rejects only negative values
\* (max_threads < 0), so the text "0" is accepted.
ThreadsValueErrorBelowZero(text) == Len(text) = 0 \/ IntOf(text) < 0

\* The body of the try block of _q_start: int(text) raises ValueError on the
\* empty text, and a value below 1 raises ValueError explicitly.
ThreadsValueError(text) == Len(text) = 0 \/ IntOf(text) < 1

\* max_threads after the try/except of _q_start
MaxThreadsFor(text) ==
    IF ThreadsValueError(text) THEN IdealThreadCount ELSE IntOf(text)

\* ------------------------------------------------------------------------
\* A freshly constructed QThreadPool: no runnable queued, none running.
NewPool ==
    [ maxThreadCount |-> IdealThreadCount, queue |-> << >>, active |-> {} ]

\* A freshly constructed Worker, not yet picked up by a pool thread.
NewWorker ==
    [ pc |-> "queued", chunks |-> 0, written |-> 0,
      started |-> 0, finished |-> 0 ]

Init ==
    /\ model = << >>
    /\ workCount = 0
    /\ workFinished = 0
    /\ processing = FALSE
    /\ lineEditThreads = StrOf(IdealThreadCount)
    /\ threadpool = NewPool
    /\ workers = << >>
    /\ events = << >>
    /\ completions = 0
    /\ threadsRead = lineEditThreads
    /\ paths = << >>
    /\ lineEditOutputDir = << >>
    /\ filesWritten = << >>

\* ------------------------------------------------------------------------
\* Slots run by the GUI thread on user input.

\* _q_add_audio_files: the dialog returns k paths (k = 0 when cancelled);
\* each becomes a row with status NEW.
q_add_audio_files ==
    IF processing
    THEN UNCHANGED vars
    ELSE \E k \in 0 .. (MaxItems - rowCount) :
            /\ model' = model \o [ i \in 1 .. k |-> [ status |-> "NEW" ] ]
            /\ UNCHANGED << workCount, workFinished, processing,
                            lineEditThreads, threadpool, workers, events,
                            completions, threadsRead, pathVars >>

\* Variant of q_clear_audio_list: the list is cleared without looking at the
\* processing flag.
q_clear_audio_listUnguarded ==
    /\ model' = << >>
    /\ UNCHANGED << workCount, workFinished, processing, lineEditThreads,
                    threadpool, workers, events, completions, threadsRead,
                    pathVars >>

\* _q_clear_audio_list
q_clear_audio_list ==
    IF processing
    THEN UNCHANGED vars
    ELSE /\ model' = << >>
         /\ UNCHANGED << workCount, workFinished, processing,
                         lineEditThreads, threadpool, workers, events,
                         completions, threadsRead, pathVars >>

\* The user types into lineEditThreads; _q_set_ui_controls disables the
\* field while a batch is running.
EditThreads ==
    /\ ~processing
    /\ \E text \in ThreadTexts : lineEditThreads' = text
    /\ UNCHANGED << model, workCount, workFinished, processing, threadpool,
                    workers, events, completions, threadsRead, pathVars >>

\* Variant of q_start: the test for an empty list is missing.
q_startNoEmptyCheck ==
    IF processing
    THEN UNCHANGED vars
    ELSE \E paramsOk \in BOOLEAN :
            /\ workCount' = rowCount
            /\ workFinished' = 0
            /\ processing' = TRUE
            /\ completions' = 0
            /\ UNCHANGED << events, pathVars >>
            /\ IF paramsOk
               THEN /\ model' = [ i \in 1 .. rowCount |->
                                    [ model[i] EXCEPT !.status = "PENDING" ] ]
                    /\ lineEditThreads' =
                          IF ThreadsValueError(lineEditThreads)
                          THEN StrOf(IdealThreadCount)
                          ELSE lineEditThreads
                    /\ threadpool' =
                          [ maxThreadCount |-> MaxThreadsFor(lineEditThreads),
                            queue |-> [ i \in 1 .. rowCount |-> i - 1 ],
                            active |-> {} ]
                    /\ workers' = [ j \in 0 .. rowCount - 1 |-> NewWorker ]
                    /\ threadsRead' = lineEditThreads
               ELSE /\ threadpool' = NewPool
                    /\ workers' = << >>
                    /\ UNCHANGED << model, lineEditThreads, threadsRead >>

\* _q_start.  paramsOk says whether the float()/int() conversions of the five
\* parameter fields succeed; when one raises, it does so while the Worker for
\* row 0 is being constructed, after the counters and the flag were set.
q_start ==
    IF processing \/ rowCount = 0
    THEN UNCHANGED vars
    ELSE \E paramsOk \in BOOLEAN :
            /\ workCount' = rowCount
            /\ workFinished' = 0
            /\ processing' = TRUE
            /\ completions' = 0
            /\ UNCHANGED << events, pathVars >>
            /\ IF paramsOk
               THEN /\ model' = [ i \in 1 .. rowCount |->
                                    [ model[i] EXCEPT !.status = "PENDING" ] ]
                    /\ lineEditThreads' =
                          IF ThreadsValueError(lineEditThreads)
                          THEN StrOf(IdealThreadCount)
                          ELSE lineEditThreads
                    /\ threadpool' =
                          [ maxThreadCount |-> MaxThreadsFor(lineEditThreads),
                            queue |-> [ i \in 1 .. rowCount |-> i - 1 ],
                            active |-> {} ]
                    /\ workers' = [ j \in 0 .. rowCount - 1 |-> NewWorker ]
                    /\ threadsRead' = lineEditThreads
               ELSE /\ threadpool' = NewPool
                    /\ workers' = << >>
                    /\ UNCHANGED << model, lineEditThreads, threadsRead >>

\* ------------------------------------------------------------------------
\* Worker.run, executed by a pool thread.

\* signals.<sig>.emit(jobid) from a pool thread: posted to the GUI thread
Posted(sig, jobid) == Append(events, [ sig |-> sig, jobid |-> jobid ])

\* Variant of PoolStartsWorker: the pool takes the Worker queued last.
PoolStartsWorkerLast(j) ==
    /\ threadpool.queue # << >>
    /\ threadpool.queue[Len(threadpool.queue)] = j
    /\ Cardinality(threadpool.active) < threadpool.maxThreadCount
    /\ threadpool' =
          [ threadpool EXCEPT
              !.queue = SubSeq(@, 1, Len(@) - 1), !.active = @ \cup { j } ]
    /\ workers' = [ workers EXCEPT ![j].pc = "assigned" ]
    /\ UNCHANGED << model, workCount, workFinished, processing,
                    lineEditThreads, events, completions, threadsRead,
                    pathVars >>

\* threadpool.start(worker): while fewer than maxThreadCount Workers are
\* running, a pool thread is reserved for the Worker queued first (the
\* Workers were queued in the order of the loop of _q_start).
PoolStartsWorker(j) ==
    /\ threadpool.queue # << >>
    /\ Head(threadpool.queue) = j
    /\ Cardinality(threadpool.active) < threadpool.maxThreadCount
    /\ threadpool' = [ threadpool EXCEPT !.queue = Tail(@),
                                         !.active = @ \cup { j } ]
    /\ workers' = [ workers EXCEPT ![j].pc = "assigned" ]
    /\ UNCHANGED << model, workCount, workFinished, processing,
                    lineEditThreads, events, completions, threadsRead,
                    pathVars >>

\* Variant of WorkerRunBegin: run() does not emit startRunning.
WorkerRunBeginSilent(j) ==
    /\ j \in Jobs
    /\ workers[j].pc = "assigned"
    /\ workers' = [ workers EXCEPT ![j].pc = "load" ]
    /\ UNCHANGED << model, workCount, workFinished, processing,
                    lineEditThreads, threadpool, events, completions,
                    threadsRead, pathVars >>

\* The reserved pool thread gets to run and calls run(), which emits
\* startRunning.  Threads reserved for different Workers are scheduled
\* independently of each other.
WorkerRunBegin(j) ==
    /\ j \in Jobs
    /\ workers[j].pc = "assigned"
    /\ workers' = [ workers EXCEPT ![j].pc = "load", ![j].started = @ + 1 ]
    /\ events' = Posted("startRunning", j)
    /\ UNCHANGED << model, workCount, workFinished, processing,
                    lineEditThreads, threadpool, completions, threadsRead,
                    pathVars >>

\* Variant of WorkerRaises: the pool thread of a Worker that raised is lost.
WorkerRaisesKeepsThread(j) ==
    /\ workers' = [ workers EXCEPT ![j].pc = "raised" ]
    /\ UNCHANGED << model, workCount, workFinished, processing,
                    lineEditThreads, threadpool, events, completions,
                    threadsRead, pathVars >>

\* An exception leaves run(): nothing after the raising statement executes,
\* and the pool thread is free for the next Worker.
WorkerRaises(j) ==
    /\ workers' = [ workers EXCEPT ![j].pc = "raised" ]
    /\ threadpool' = [ threadpool EXCEPT !.active = @ \ { j } ]
    /\ UNCHANGED << model, workCount, workFinished, processing,
                    lineEditThreads, events, completions, threadsRead,
                    pathVars >>

\* librosa.load and slicer.slice: either one raises, or n chunks result.
WorkerLoad(j) ==
    /\ j \in Jobs
    /\ workers[j].pc = "load"
    /\ \/ WorkerRaises(j)
       \/ \E n \in 0 .. MaxChunks :
            /\ workers' = [ workers EXCEPT ![j].pc = "write",
                                           ![j].chunks = n ]
            /\ UNCHANGED << model, workCount, workFinished, processing,
                            lineEditThreads, threadpool, events, completions,
                            threadsRead, pathVars >>

\* One iteration of the for loop: soundfile.write raises or writes chunk i.
WorkerWrite(j) ==
    /\ j \in Jobs
    /\ workers[j].pc = "write"
    /\ workers[j].written < workers[j].chunks
    /\ \/ WorkerRaises(j)
       \/ /\ workers' = [ workers EXCEPT ![j].written = @ + 1 ]
          /\ UNCHANGED << model, workCount, workFinished, processing,
                          lineEditThreads, threadpool, events, completions,
                          threadsRead, pathVars >>

\* Variant of WorkerEmitFinished: finishedWithArgs is emitted only after at
\* least one chunk was written (the emission sits inside the loop).
WorkerEmitFinishedIfChunks(j) ==
    /\ j \in Jobs
    /\ workers[j].pc = "write"
    /\ workers[j].written = workers[j].chunks
    /\ workers' = [ workers EXCEPT
                      ![j].pc = "done",
                      ![j].finished = IF workers[j].chunks > 0
                                      THEN @ + 1 ELSE @ ]
    /\ threadpool' = [ threadpool EXCEPT !.active = @ \ { j } ]
    /\ events' = IF workers[j].chunks > 0
                 THEN Posted("finishedWithArgs", j)
                 ELSE events
    /\ UNCHANGED << model, workCount, workFinished, processing,
                    lineEditThreads, completions, threadsRead, pathVars >>

\* The loop is exhausted: finishedWithArgs is emitted and run() returns.
WorkerEmitFinished(j) ==
    /\ j \in Jobs
    /\ workers[j].pc = "write"
    /\ workers[j].written = workers[j].chunks
    /\ workers' = [ workers EXCEPT ![j].pc = "done", ![j].finished = @ + 1 ]
    /\ threadpool' = [ threadpool EXCEPT !.active = @ \ { j } ]
    /\ events' = Posted("finishedWithArgs", j)
    /\ UNCHANGED << model, workCount, workFinished, processing,
                    lineEditThreads, completions, threadsRead, pathVars >>

\* ------------------------------------------------------------------------
\* Slots run by the GUI thread for queued signal emissions, in posting order.

\* item.setData(status, UserRole + 2) on row jobid; model.item() of a row
\* that does not exist is None and setData on it raises.
SetStatus(jobid, status) ==
    IF jobid + 1 \in DOMAIN model
    THEN [ model EXCEPT ![jobid + 1].status = status ]
    ELSE model

\* Variant of SlotOf: the two connections are made the wrong way round.
SlotOfSwapped(sig) ==
    IF sig = "startRunning" THEN "_q_threadFinished"
    ELSE "_q_threadStartProcessing"

\* The connections _q_start makes on each Worker's signals: the slot that a
\* signal invokes.
SlotOf(sig) ==
    IF sig = "startRunning" THEN "_q_threadStartProcessing"
    ELSE "_q_threadFinished"

\* _q_threadStartProcessing(jobid)
q_threadStartProcessing ==
    /\ events # << >>
    /\ SlotOf(Head(events).sig) = "_q_threadStartProcessing"
    /\ events' = Tail(events)
    /\ model' = SetStatus(Head(events).jobid, "PROCESSING")
    /\ UNCHANGED << workCount, workFinished, processing, lineEditThreads,
                    threadpool, workers, completions, threadsRead, pathVars >>

\* Variant of BatchComplete: the test is off by one.
BatchCompleteOffByOne(finished, count) == finished >= count - 1

\* The test of _q_threadFinished that decides batch completion.
BatchComplete(finished, count) == finished = count

\* _q_threadFinished(jobid)
q_threadFinished ==
    /\ events # << >>
    /\ SlotOf(Head(events).sig) = "_q_threadFinished"
    /\ events' = Tail(events)
    /\ workFinished' = workFinished + 1
    /\ model' = IF Head(events).jobid >= 0
                THEN SetStatus(Head(events).jobid, "FINISHED")
                ELSE model
    /\ IF BatchComplete(workFinished', workCount)
       THEN /\ processing' = FALSE
            /\ completions' = completions + 1
       ELSE UNCHANGED << processing, completions >>
    /\ UNCHANGED << workCount, lineEditThreads, threadpool, workers,
                    threadsRead, pathVars >>

\* ------------------------------------------------------------------------
\* Steps of the pool threads, and of the GUI thread's event loop.
WorkerStep ==
    \E j \in 0 .. MaxItems - 1 :
        \/ PoolStartsWorker(j)
        \/ WorkerRunBegin(j)
        \/ WorkerLoad(j)
        \/ WorkerWrite(j)
        \/ WorkerEmitFinished(j)

DeliverSignal ==
    \/ q_threadStartProcessing
    \/ q_threadFinished

Next ==
    \/ q_add_audio_files
    \/ q_clear_audio_list
    \/ EditThreads
    \/ q_start
    \/ WorkerStep
    \/ DeliverSignal

Spec == Init /\ [][Next]_vars

\* Every pool thread keeps running (each call of run() returns or raises in
\* finite time) and the GUI thread's event loop keeps delivering posted
\* signals.  No fairness is assumed of the user.
FairSpec == Spec /\ WF_vars(WorkerStep) /\ WF_vars(DeliverSignal)

\* ------------------------------------------------------------------------
\* File naming.  A path or a file name is a sequence of characters.

\* Paths QFileDialog.getOpenFileNames can return (absolute, "/"-separated):
\* /d/a.wav, /e/a.wav, /d/a_0.wav, /d/a.b.wav and /a.wav.
InputPaths ==
    { << "/", "d", "/", "a", ".", "w", "a", "v" >>,
      << "/", "e", "/", "a", ".", "w", "a", "v" >>,
      << "/", "d", "/", "a", "_", "0", ".", "w", "a", "v" >>,
      << "/", "d", "/", "a", ".", "b", ".", "w", "a", "v" >>,
      << "/", "a", ".", "w", "a", "v" >> }

\* Texts of lineEditOutputDir: empty, /o and /d.
OutputDirs == { << >>, << "/", "o" >>, << "/", "d" >> }

\* os.getcwd(), used by os.path.abspath for a relative path
Cwd == << "/", "w" >>

\* The largest position of character c in s, 0 when s has no c (str.rfind
\* counted from 1).
RECURSIVE LastIndexOf(_, _)
LastIndexOf(c, s) ==
    IF Len(s) = 0 THEN 0
    ELSE IF s[Len(s)] = c THEN Len(s)
    ELSE LastIndexOf(c, SubSeq(s, 1, Len(s) - 1))

\* The smallest position of character c in s, 0 when s has no c.
RECURSIVE FirstIndexOf(_, _)
FirstIndexOf(c, s) ==
    IF Len(s) = 0 THEN 0
    ELSE IF s[1] = c THEN 1
    ELSE LET r == FirstIndexOf(c, Tail(s)) IN IF r = 0 THEN 0 ELSE r + 1

\* s without its trailing "/" characters (str.rstrip('/'))
RECURSIVE StripSeps(_)
StripSeps(s) ==
    IF Len(s) > 0 /\ s[Len(s)] = "/"
    THEN StripSeps(SubSeq(s, 1, Len(s) - 1))
    ELSE s

\* os.path.join(a, b)
join(a, b) ==
    IF Len(b) > 0 /\ b[1] = "/" THEN b
    ELSE IF Len(a) = 0 \/ a[Len(a)] = "/" THEN a \o b
    ELSE a \o << "/" >> \o b

\* p with every run of "/" replaced by one "/"
RECURSIVE CollapseSeps(_)
CollapseSeps(p) ==
    IF Len(p) <= 1 THEN p
    ELSE IF p[1] = "/" /\ p[2] = "/" THEN CollapseSeps(Tail(p))
    ELSE << p[1] >> \o CollapseSeps(Tail(p))

\* os.path.normpath for a path without "." and ".." components: runs of "/"
\* become one "/" and a trailing "/" is dropped.
normpath(p) ==
    LET c == CollapseSeps(p)
    IN  IF Len(c) > 1 /\ c[Len(c)] = "/" THEN SubSeq(c, 1, Len(c) - 1) ELSE c

\* os.path.abspath(p)
abspath(p) ==
    IF Len(p) > 0 /\ p[1] = "/" THEN normpath(p) ELSE normpath(join(Cwd, p))

\* os.path.dirname(p)
dirname(p) ==
    LET head == SubSeq(p, 1, LastIndexOf("/", p))
    IN  IF StripSeps(head) = << >> THEN head ELSE StripSeps(head)

\* os.path.basename(p)
basename(p) == SubSeq(p, LastIndexOf("/", p) + 1, Len(p))

\* Variant of Stem: the name is cut at its first "." (split instead of rsplit).
StemAtFirstDot(name) ==
    IF FirstIndexOf(".", name) = 0 THEN name
    ELSE SubSeq(name, 1, FirstIndexOf(".", name) - 1)

\* name.rsplit('.', maxsplit=1)[0]
Stem(name) ==
    IF LastIndexOf(".", name) = 0 THEN name
    ELSE SubSeq(name, 1, LastIndexOf(".", name) - 1)

\* '%d' % n: the decimal digits of n as characters
DecimalText(n) ==
    LET digits == << "0", "1", "2", "3", "4", "5", "6", "7", "8", "9" >>
    IN  [ k \in 1 .. Len(StrOf(n)) |-> digits[StrOf(n)[k] + 1] ]

\* '%s_%d.wav' % (basename(filename).rsplit('.', maxsplit=1)[0], i)
ChunkName(filename, i) ==
    Stem(basename(filename)) \o << "_" >> \o DecimalText(i)
        \o << ".", "w", "a", "v" >>

\* The directory run() writes to.
OutDirFor(filename, out_dir) ==
    IF out_dir = << >> THEN dirname(abspath(filename)) ELSE out_dir

\* The path run() gives soundfile.write for chunk i.
ChunkPath(filename, out_dir, i) ==
    join(OutDirFor(filename, out_dir), ChunkName(filename, i))

\* The variables of the scheduling; the file naming steps leave them alone,
\* except that a new row is NEW.
schedVars == << workCount, workFinished, processing, lineEditThreads,
               threadpool, workers, events, completions, threadsRead >>

\* The list is empty and the output directory holds one of the texts.
PathInit ==
    /\ model = << >>
    /\ workCount = 0
    /\ workFinished = 0
    /\ processing = FALSE
    /\ lineEditThreads = StrOf(IdealThreadCount)
    /\ threadpool = NewPool
    /\ workers = << >>
    /\ events = << >>
    /\ completions = 0
    /\ threadsRead = lineEditThreads
    /\ paths = << >>
    /\ lineEditOutputDir \in OutputDirs
    /\ filesWritten = << >>

\* _q_add_audio_files appends a row for a selected path, whatever rows the
\* list already holds.
AppendRow ==
    /\ DOMAIN filesWritten = {}
    /\ Len(paths) < MaxItems
    /\ \E path \in InputPaths :
          /\ paths' = Append(paths, path)
          /\ model' = Append(model, [ status |-> "NEW" ])
    /\ UNCHANGED << schedVars, lineEditOutputDir, filesWritten >>

\* _q_start gives the Worker of row i the row's path as filename and the text
\* of lineEditOutputDir as out_dir; no Worker has written a file yet.
CreateWorkers ==
    /\ DOMAIN filesWritten = {}
    /\ Len(paths) > 0
    /\ filesWritten' = [ j \in 0 .. Len(paths) - 1 |-> << >> ]
    /\ UNCHANGED << schedVars, model, paths, lineEditOutputDir >>

\* One iteration of the loop of run() in the Worker of row j.
WriteChunk(j) ==
    /\ j \in DOMAIN filesWritten
    /\ Len(filesWritten[j]) < MaxChunks
    /\ filesWritten' =
          [ filesWritten EXCEPT
              ![j] = Append(@, ChunkPath(paths[j + 1], lineEditOutputDir,
                                         Len(@))) ]
    /\ UNCHANGED << schedVars, model, paths, lineEditOutputDir >>

PathNext ==
    \/ AppendRow
    \/ CreateWorkers
    \/ \E j \in 0 .. MaxItems - 1 : WriteChunk(j)

\* The file names a batch writes, for every list and output directory.
PathSpec == PathInit /\ [][PathNext]_vars

\* ------------------------------------------------------------------------
\* Properties.

\* Row positions holding a given status.
RowsWith(status) == { i \in 1 .. Len(model) : model[i].status = status }

\* The finishedWithArgs emission of job j was made and its slot has run.
FinishedHandled(j) ==
    /\ workers[j].finished = 1
    /\ \A p \in 1 .. Len(events) :
          ~(events[p].sig = "finishedWithArgs" /\ events[p].jobid = j)

\* C1: every batch of N >= 1 submitted jobs eventually completes: the
\* processing flag returns to false, also when some jobs fail.
C1_BatchEventuallyCompletes ==
    (processing /\ Jobs # {}) ~> ~processing

\* C2: every job whose run has begun and ended, by returning or by raising,
\* has emitted exactly one started and exactly one finished notification.
C2_OneStartedOneFinished ==
    \A j \in Jobs :
        workers[j].pc \in { "done", "raised" } =>
            workers[j].started = 1 /\ workers[j].finished = 1

\* C3: within one batch the completion branch runs at most once, and only in
\* the step that handles the last outstanding finished notification: every
\* job of the batch has then emitted finished, no notification is still
\* queued, and every row of the batch is FINISHED.
C3_CompletionOnceAfterAll ==
    /\ [](completions <= 1)
    /\ [][ completions' > completions =>
             /\ completions = 0
             /\ processing /\ ~processing'
             /\ Cardinality(Jobs) = workCount
             /\ events' = << >>
             /\ \A j \in Jobs : workers[j].finished = 1
             /\ RowsWith("FINISHED")' = 1 .. workCount ]_vars

\* A batch of at least two jobs, run on at least two pool threads, completed.
C3_Witness ==
    /\ completions = 1
    /\ workCount >= 2
    /\ threadpool.maxThreadCount >= 2

\* C4: at most maxThreadCount rows hold status PROCESSING, also after a job
\* has failed.
C4_ProcessingWithinCap ==
    Cardinality(RowsWith("PROCESSING")) <= threadpool.maxThreadCount

\* C5: a job whose run raised ends with status ERROR once every notification
\* it emitted has been handled.
C5_FailedJobEndsError ==
    \A j \in Jobs :
        ( /\ workers[j].pc = "raised"
          /\ \A p \in 1 .. Len(events) : events[p].jobid # j )
        => StatusOf(j) = "ERROR"

\* C6: a failed job gives its pool thread back, and every job admitted to the
\* pool either fails itself or is eventually marked FINISHED, whatever happens
\* to its siblings.
C6_SiblingsStillFinish ==
    /\ [](\A j \in Jobs :
            workers[j].pc = "raised" => j \notin threadpool.active)
    /\ \A j \in 0 .. MaxItems - 1 :
          (j \in Jobs /\ workers[j].pc = "queued")
          ~> ( /\ j \in Jobs
               /\ \/ workers[j].pc = "raised"
                  \/ j < Len(model) /\ StatusOf(j) = "FINISHED" )

\* On a single pool thread a job failed, and a job queued behind it ran on
\* the same thread afterwards and is FINISHED.
C6_Witness ==
    /\ threadpool.maxThreadCount = 1
    /\ \E j, k \in Jobs :
          /\ j < k
          /\ workers[j].pc = "raised"
          /\ StatusOf(k) = "FINISHED"

\* C7 as stated: a row that is FINISHED or ERROR keeps that status in every
\* step that keeps the row.
C7_TerminalNeverChanges ==
    [][ \A i \in 1 .. Len(model) :
          (model[i].status \in { "FINISHED", "ERROR" } /\ i <= Len(model'))
          => model'[i].status = model[i].status ]_vars

\* C7 amended: a FINISHED or ERROR row that is kept changes its status only in
\* the step of _q_start that begins another batch, which makes it PENDING; no
\* notification and no added file changes it.
C7_TerminalChangesOnlyOnRestart ==
    [][ \A i \in 1 .. Len(model) :
          ( /\ model[i].status \in { "FINISHED", "ERROR" }
            /\ i <= Len(model')
            /\ model'[i].status # model[i].status )
          => ( /\ ~processing /\ processing'
               /\ events = << >>
               /\ model'[i].status = "PENDING" ) ]_vars

\* After a batch completed, files were added behind its FINISHED rows.
C7_Witness ==
    /\ ~processing
    /\ completions = 1
    /\ Len(model) > workCount
    /\ model[1].status = "FINISHED"
    /\ model[Len(model)].status = "NEW"

\* C8: for each job the started notification is queued and handled before the
\* finished one: a row becomes PROCESSING only from PENDING and FINISHED only
\* from PROCESSING.
C8_StartedBeforeFinished ==
    /\ [](\A p, q \in 1 .. Len(events) :
            ( /\ p < q
              /\ events[p].jobid = events[q].jobid )
            => ( /\ events[p].sig = "startRunning"
                 /\ events[q].sig = "finishedWithArgs" ))
    /\ [][ \A i \in 1 .. Len(model) :
             i <= Len(model') =>
               /\ ( /\ model'[i].status = "PROCESSING"
                    /\ model[i].status # "PROCESSING" )
                  => model[i].status = "PENDING"
               /\ ( /\ model'[i].status = "FINISHED"
                    /\ model[i].status # "FINISHED" )
                  => model[i].status = "PROCESSING" ]_vars

\* One job is FINISHED while another of the batch is still PROCESSING.
C8_Witness ==
    /\ processing
    /\ RowsWith("FINISHED") # {}
    /\ RowsWith("PROCESSING") # {}

\* C9: the pool's maximum thread count is at least 1 whenever Workers exist,
\* and it is the ideal thread count when the text parsed was "0" or empty (the
\* field then shows the ideal thread count while the batch runs).
C9_ThreadCountFallback ==
    /\ threadpool.maxThreadCount >= 1
    /\ ( Jobs # {} /\ threadsRead \in { << >>, << 0 >> } )
       => ( /\ threadpool.maxThreadCount = IdealThreadCount
            /\ processing => lineEditThreads = << IdealThreadCount >> )

\* A batch was started with the text "0" and one of its Workers is running.
C9_Witness ==
    /\ threadsRead = << 0 >>
    /\ threadpool.active # {}
    /\ threadpool.maxThreadCount = IdealThreadCount

\* C10: a job whose slicing gave zero chunks writes nothing, emits finished
\* once, is marked FINISHED when that notification is handled, and is counted:
\* workFinished is the number of handled finished notifications, and the
\* batch is complete once all of them are handled.
C10_ZeroChunksFinishes ==
    /\ \A j \in Jobs :
          (workers[j].pc = "done" /\ workers[j].chunks = 0) =>
             /\ workers[j].written = 0
             /\ workers[j].finished = 1
             /\ (processing /\ FinishedHandled(j)) => StatusOf(j) = "FINISHED"
    /\ (processing /\ Jobs # {}) =>
          workFinished = Cardinality({ j \in Jobs : FinishedHandled(j) })
    /\ (Jobs # {} /\ \A j \in Jobs : FinishedHandled(j)) => ~processing

\* A batch made only of zero-chunk jobs completed.
C10_Witness ==
    /\ ~processing
    /\ completions = 1
    /\ Len(model) = workCount
    /\ \A j \in Jobs :
          /\ workers[j].pc = "done"
          /\ workers[j].chunks = 0
          /\ StatusOf(j) = "FINISHED"

\* C12: while a batch is in flight its composition is frozen: no step changes
\* workCount or the number of rows, only the delivery of a notification
\* changes a row's status, workFinished or the flag, and every queued
\* notification refers to an existing row.
C12_BatchFrozenWhileProcessing ==
    /\ [](processing =>
            /\ Len(model) = workCount
            /\ \A p \in 1 .. Len(events) :
                  events[p].jobid + 1 \in DOMAIN model)
    /\ [][ processing =>
             /\ workCount' = workCount
             /\ Len(model') = Len(model)
             /\ Len(events') >= Len(events) =>
                   /\ model' = model
                   /\ workFinished' = workFinished
                   /\ processing' ]_vars

\* A batch of two is in flight: one finished notification was handled and
\* another notification is queued.
C12_Witness ==
    /\ processing
    /\ workCount = 2
    /\ workFinished = 1
    /\ events # << >>

\* C13 as stated: no job has begun executing while a job with a smaller
\* ordinal has not.
C13_RunsBeginInOrder ==
    \A j, k \in Jobs :
        (j < k /\ workers[k].started = 1) => workers[j].started = 1

\* C13 amended: no job has been given a pool thread while a job with a
\* smaller ordinal is still queued, and on a pool of one thread the jobs also
\* begin executing in that order.
C13_TakenInSubmissionOrder ==
    \A j, k \in Jobs :
        j < k =>
            /\ workers[k].pc # "queued" => workers[j].pc # "queued"
            /\ ( /\ threadpool.maxThreadCount = 1
                 /\ workers[k].started = 1 ) => workers[j].started = 1

\* A later job has finished its run while an earlier one is still running.
C13_Witness ==
    \E j, k \in Jobs :
        /\ j < k
        /\ workers[k].pc = "done"
        /\ workers[j].pc \in { "load", "write" }

\* C14: 0 <= workFinished <= workCount, and the flag is true exactly when a
\* batch has been started and workFinished < workCount.
C14_CountersAndFlag ==
    /\ 0 <= workFinished
    /\ workFinished <= workCount
    /\ processing <=> (workCount > 0 /\ workFinished < workCount)

\* A batch in which a job failed and another was counted is in flight.
C14_Witness ==
    /\ processing
    /\ workFinished >= 1
    /\ \E j \in Jobs : workers[j].pc = "raised"

\* C15: with an empty list and no batch in flight, no step (a start included)
\* sets the flag, changes the counters, creates a Worker or a pool, queues a
\* notification or reports completion.
C15_EmptyStartIsNoOp ==
    [][ (Len(model) = 0 /\ ~processing) =>
          /\ ~processing'
          /\ workCount' = workCount
          /\ workFinished' = workFinished
          /\ completions' = completions
          /\ events' = events
          /\ threadpool' = threadpool
          /\ Jobs' = Jobs ]_vars

\* The list was cleared after a batch completed: the counters still hold the
\* values of that batch.
C15_Witness ==
    /\ Len(model) = 0
    /\ ~processing
    /\ completions = 1
    /\ workFinished = workCount
    /\ workCount >= 1

\* Path p is the file written for chunk n of input file f: its file name is
\* f's file name without the last extension, then "_", the decimal index and
\* ".wav"; with an empty output directory it lies in f's own directory.
IsChunkOf(p, f, n) ==
    \E s \in 0 .. Len(f), e \in 1 .. Len(f) + 1 :
        /\ s < e
        /\ s = 0 \/ f[s] = "/"
        /\ \A t \in s + 1 .. Len(f) : f[t] # "/"
        /\ \/ e = Len(f) + 1 /\ \A t \in s + 1 .. Len(f) : f[t] # "."
           \/ e <= Len(f) /\ f[e] = "." /\ \A t \in e + 1 .. Len(f) : f[t] # "."
        /\ LET name == SubSeq(f, s + 1, e - 1) \o << "_" >>
                          \o << << "0", "1", "2", "3", "4", "5" >>[n + 1] >>
                          \o << ".", "w", "a", "v" >>
           IN  /\ Len(p) >= Len(name)
               /\ SubSeq(p, Len(p) - Len(name) + 1, Len(p)) = name
               /\ Len(p) = Len(name) \/ p[Len(p) - Len(name)] = "/"
               /\ lineEditOutputDir = << >> => p = SubSeq(f, 1, s) \o name

\* C11: within one job the i-th file written is named after the input's base
\* name and the zero-based index i, no two files of the job share a path, and
\* with an empty output directory the files lie in the input's directory.
C11_ChunkPathsOfAJob ==
    \A j \in DOMAIN filesWritten :
        /\ \A i, k \in 1 .. Len(filesWritten[j]) :
              i # k => filesWritten[j][i] # filesWritten[j][k]
        /\ \A i \in 1 .. Len(filesWritten[j]) :
              IsChunkOf(filesWritten[j][i], paths[j + 1], i - 1)

\* A job whose input name has two dots wrote two files beside its input.
C11_Witness ==
    /\ lineEditOutputDir = << >>
    /\ \E j \in DOMAIN filesWritten :
          /\ paths[j + 1] =
                << "/", "d", "/", "a", ".", "b", ".", "w", "a", "v" >>
          /\ Len(filesWritten[j]) >= 2

\* C16: for any two different jobs of a batch, no path written by one is a
\* path written by the other or the other's input path.
C16_JobsTouchDistinctFiles ==
    \A j, k \in DOMAIN filesWritten :
        j # k =>
            \A i \in 1 .. Len(filesWritten[j]) :
                /\ filesWritten[j][i] # paths[k + 1]
                /\ \A m \in 1 .. Len(filesWritten[k]) :
                      filesWritten[j][i] # filesWritten[k][m]

====
